---- MODULE Spec2Model ----
(***************************************************************************)
(* Model of stn_plot.py (TempStylePlotter and main) and of                 *)
(* generate_cpt_previews.py (generate_cpt_preview).                        *)
(*                                                                         *)
(* Numbers.  Python floats are modelled in exact decimal arithmetic as     *)
(* integers counting 1/10000 of a degree, wrapped in a record that also    *)
(* represents the IEEE values nan and +-inf that float() can produce.      *)
(* Station coordinates lie on a 0.1 degree grid, so range * 0.15 is exact. *)
(***************************************************************************)
EXTENDS Integers, Sequences, FiniteSets, TLC

VARIABLES
    script,      \* which script the current invocation runs: "none", "stn_plot", "preview"
    pc,          \* position of the invocation in its script
    args,        \* parsed command line (argparse namespace) of the invocation
    stations,    \* TempStylePlotter.stations / local `stations`
    region,      \* TempStylePlotter.region / local `region`; <<>> is None
    padding,     \* local `padding` of calculate_region after line 88; <<>> before
    res,         \* local gmt_res of create_temp_map; "" before line 197
    cacheName,   \* local cache_name / temp_relief of create_temp_map; <<>> before line 206
    useRelief,   \* locals use_relief and grid_file of create_temp_map (set together)
    cptFile,     \* parameter cpt_file of create_custom_elevation_cpt after line 132; <<>> before
    dl,          \* outcome of each external terrain command run by this invocation
    raised,      \* rendering steps whose call raised an exception in this invocation
    intervals,   \* locals lon_interval, lat_interval of create_temp_map; <<>> before line 413
    exitStatus,  \* process exit status; -1 while the invocation runs
    fs,          \* files on disk in the working directory: set of [name, data]
    runs,        \* number of invocations started so far
    other        \* the locals of a second process running in the same directory

vars == <<script, pc, args, stations, region, padding, res, cacheName, useRelief,
          cptFile, dl, raised, intervals, exitStatus, fs, runs, other>>

---------------------------------------------------------------------------
(* Bounds of the model *)

MaxStations == 2       \* longest station list drawn for calculate_region
MaxFields == 5         \* most slash-separated fields in a --region string
MaxRuns == 2           \* invocations in one behaviour
MaxSpanSteps == 330    \* axis spans drawn for calculate_interval, in 0.05 degree steps
MaxSpreadTenths == 70  \* coordinate spreads compared for the padding heuristic, in 0.1 degree

---------------------------------------------------------------------------
(* Arithmetic *)

Tenth == 10 * 10 * 10          \* 0.1 degree in model units
Degree == 10 * Tenth           \* 1 degree in model units

Max2(a, b) == IF a >= b THEN a ELSE b
Min2(a, b) == IF a <= b THEN a ELSE b
SetMax(S) == CHOOSE x \in S : \A y \in S : y <= x
SetMin(S) == CHOOSE x \in S : \A y \in S : x <= y

(* float values *)
Num(v) == [k |-> "num", v |-> v]
NaN == [k |-> "nan", v |-> 0]
PosInf == [k |-> "inf", v |-> 1]
NegInf == [k |-> "inf", v |-> -1]

(* IEEE comparison a < b: false whenever an operand is nan *)
FLt(a, b) ==
    IF a.k = "nan" \/ b.k = "nan" THEN FALSE
    ELSE IF a.k = "inf" THEN a.v < 0 /\ ~(b.k = "inf" /\ b.v < 0)
    ELSE IF b.k = "inf" THEN b.v > 0
    ELSE a.v < b.v

FEq(a, b) == a.k # "nan" /\ b.k # "nan" /\ a = b
FGt(a, b) == FLt(b, a)
FGe(a, b) == FLt(b, a) \/ FEq(a, b)
FLe(a, b) == FLt(a, b) \/ FEq(a, b)

(* IEEE subtraction a - b *)
FSub(a, b) ==
    IF a.k = "nan" \/ b.k = "nan" THEN NaN
    ELSE IF a.k = "inf" /\ b.k = "inf" THEN (IF a.v = b.v THEN NaN ELSE a)
    ELSE IF a.k = "inf" THEN a
    ELSE IF b.k = "inf" THEN [k |-> "inf", v |-> 0 - b.v]
    ELSE Num(a.v - b.v)

---------------------------------------------------------------------------
(* calculate_region *)

PadMin == 500          \* 0.05 degree
PadMax == 5000         \* 0.5 degree

Station(lat, lon) == [latitude |-> lat, longitude |-> lon]

Lons(st) == {st[i].longitude : i \in 1..Len(st)}
Lats(st) == {st[i].latitude : i \in 1..Len(st)}

(* lon_range, lat_range and their maximum, lines 81-82 and 87 *)
LonRange(st) == SetMax(Lons(st)) - SetMin(Lons(st))
LatRange(st) == SetMax(Lats(st)) - SetMin(Lats(st))
Spread(st) == Max2(LonRange(st), LatRange(st))

(* a plausible slip: the 0.5 degree ceiling is dropped *)
AutoPaddingNoCeiling(m) == Max2(PadMin, (m * 15) \div 100)

(* auto_padding = max(0.05, min(0.5, max(lon_range, lat_range) * 0.15)) *)
AutoPadding(m) == Max2(PadMin, Min2(PadMax, (m * 15) \div 100))

(* calculate_region(padding, min_range) on station list st: the padding it
   uses and the region it stores.  pad is <<>> for None, <<v>> otherwise.
   The parameter min_range is accepted and never read. *)
CalculateRegion(st, pad, min_range) ==
    LET p == IF pad = <<>> THEN AutoPadding(Spread(st)) ELSE pad[1]
    IN  [padding |-> p,
         region |-> << Num(SetMin(Lons(st)) - p), Num(SetMax(Lons(st)) + p),
                       Num(SetMin(Lats(st)) - p), Num(SetMax(Lats(st)) + p) >>]

(* a plausible slip: the preview uses the adaptive padding of stn_plot *)
PreviewRegionAdaptive(st) == CalculateRegion(st, << >>, 2 * Degree).region

(* generate_cpt_preview: fixed padding of 0.5 degree *)
PreviewRegion(st) ==
    LET p == 5000
    IN  << Num(SetMin(Lons(st)) - p), Num(SetMax(Lons(st)) + p),
           Num(SetMin(Lats(st)) - p), Num(SetMax(Lats(st)) + p) >>

---------------------------------------------------------------------------
(* set_manual_region *)

(* A --region string is a sequence of symbols: "/" or a token, a maximal run
   of characters other than "/".  No two tokens are adjacent. *)
Tokens == {"abc", "nan", "inf", "-181", "-180", "-90", "90", "180", "181"}

(* str.split('/'): the fields between the slashes, "" for an empty field *)
RECURSIVE SplitFrom(_, _, _)
SplitFrom(s, i, cur) ==
    IF i > Len(s) THEN <<cur>>
    ELSE IF s[i] = "/" THEN <<cur>> \o SplitFrom(s, i + 1, "")
    ELSE SplitFrom(s, i + 1, s[i])

Split(s) == SplitFrom(s, 1, "")

(* float(p): [ok |-> FALSE] stands for ValueError *)
ParseFloat(p) ==
    CASE p = "nan"   -> [ok |-> TRUE, f |-> NaN]
      [] p = "inf"   -> [ok |-> TRUE, f |-> PosInf]
      [] p = "-181"  -> [ok |-> TRUE, f |-> Num(0 - 181 * Degree)]
      [] p = "-180"  -> [ok |-> TRUE, f |-> Num(0 - 180 * Degree)]
      [] p = "-90"   -> [ok |-> TRUE, f |-> Num(0 - 90 * Degree)]
      [] p = "90"    -> [ok |-> TRUE, f |-> Num(90 * Degree)]
      [] p = "180"   -> [ok |-> TRUE, f |-> Num(180 * Degree)]
      [] p = "181"   -> [ok |-> TRUE, f |-> Num(181 * Degree)]
      [] p = "115.5" -> [ok |-> TRUE, f |-> Num(1155 * Tenth)]
      [] p = "116.8" -> [ok |-> TRUE, f |-> Num(1168 * Tenth)]
      [] p = "39.5"  -> [ok |-> TRUE, f |-> Num(395 * Tenth)]
      [] p = "40.7"  -> [ok |-> TRUE, f |-> Num(407 * Tenth)]
      [] OTHER       -> [ok |-> FALSE, f |-> NaN]

(* the checks of lines 114-121, in the order of the code: TRUE when one raises *)
RegionCheckRaises(r) ==
    \/ FGe(r[1], r[2])
    \/ FGe(r[3], r[4])
    \/ FLt(r[3], Num(0 - 90 * Degree)) \/ FGt(r[4], Num(90 * Degree))
    \/ FLt(r[1], Num(0 - 180 * Degree)) \/ FGt(r[2], Num(180 * Degree))

(* set_manual_region(region_str) with self.region = old before the call:
   ok is FALSE when the call ends in sys.exit(1); region is self.region
   afterwards (assigned at line 110, before the checks) *)
ManualRegion(s, old) ==
    LET parts == Split(s)
    IN  IF Len(parts) # 4 THEN [ok |-> FALSE, region |-> old]
        ELSE IF \E i \in 1..4 : ~ParseFloat(parts[i]).ok
             THEN [ok |-> FALSE, region |-> old]
        ELSE LET r == [i \in 1..4 |-> ParseFloat(parts[i]).f]
             IN  [ok |-> ~RegionCheckRaises(r), region |-> r]

---------------------------------------------------------------------------
(* Files *)

Exists(f, name) == \E e \in f : e.name = name
Remove(f, name) == {e \in f : e.name # name}
WriteFile(f, name, data) == Remove(f, name) \cup {[name |-> name, data |-> data]}
ReadFile(f, name) == (CHOOSE e \in f : e.name = name).data

(* shutil.copy(src, dst) when src exists and is not dst *)
CopyFile(f, src, dst) == WriteFile(f, dst, ReadFile(f, src))

DefaultCpt == <<"cpt/colombia.cpt">>
UserCpt == <<"user.cpt">>
WorkCpt == <<"custom_elevation.cpt">>
FinalCpt == <<"final_elevation.cpt">>
PreviewCpt == <<"temp_preview.cpt">>
OutputFile == <<"temp_style_map.png">>
PreviewPng == <<"cpt/colombia.png">>

(* temp_files of line 475 that this model's invocations can create *)
TempFiles == {WorkCpt, FinalCpt}

InitialFiles == {[name |-> DefaultCpt, data |-> <<"cpt", "colombia">>],
                 [name |-> UserCpt, data |-> <<"cpt", "user">>]}

---------------------------------------------------------------------------
(* Terrain cache *)

(* resolution_map.get(resolution, '30s') *)
ResolutionMap(resolution) ==
    IF resolution \in {"01m", "30s", "15s", "03s", "01s"} THEN resolution ELSE "30s"

(* f"{x:.1f}": sign and number of tenths, ties to the even tenth *)
Fmt1(x) ==
    IF x.k = "nan" THEN <<"nan", 0>>
    ELSE IF x.k = "inf" THEN <<(IF x.v < 0 THEN "-inf" ELSE "inf"), 0>>
    ELSE LET a == IF x.v < 0 THEN 0 - x.v ELSE x.v
             q == a \div Tenth
             r == a % Tenth
             t == IF 2 * r > Tenth \/ (2 * r = Tenth /\ q % 2 = 1) THEN q + 1 ELSE q
         IN  <<(IF x.v < 0 THEN "-" ELSE ""), t>>

(* os.path.join("cache", f"relief_{gmt_res}_{lon_min:.1f}_..._{lat_max:.1f}.grd") *)
CacheName(gmt_res, r) ==
    <<"cache", "relief", gmt_res, Fmt1(r[1]), Fmt1(r[2]), Fmt1(r[3]), Fmt1(r[4]), "grd">>

(* temp_relief.replace('.grd', '.nc') *)
NcName(name) == [name EXCEPT ![8] = "nc"]

(* no external terrain command has run; n counts the grdcut runs *)
NoDownload == [primary |-> "none", alt |-> "none", convert |-> "none", n |-> 0]

---------------------------------------------------------------------------
(* calculate_interval *)

StandardIntervals == <<500, 1000, 2000, 2500, 5000, 10000, 20000, 50000>>

(* interval <= range_deg / 3.0 *)
AtMostThird(interval, range_deg) ==
    range_deg.k # "nan" /\ (range_deg.k = "inf" \/ 3 * interval <= range_deg.v)

(* the for loop of lines 405-409 from index i on, best being best_interval *)
RECURSIVE IntervalLoop(_, _, _)
IntervalLoop(i, best, range_deg) ==
    IF i > Len(StandardIntervals) THEN best
    ELSE IF AtMostThird(StandardIntervals[i], range_deg)
         THEN IntervalLoop(i + 1, StandardIntervals[i], range_deg)
         ELSE best

(* a plausible slip: the comparison of line 406 is strict *)
RECURSIVE IntervalLoopStrict(_, _, _)
IntervalLoopStrict(i, best, range_deg) ==
    IF i > Len(StandardIntervals) THEN best
    ELSE IF range_deg.k = "num" /\ 3 * StandardIntervals[i] < range_deg.v
         THEN IntervalLoopStrict(i + 1, StandardIntervals[i], range_deg)
         ELSE best

CalculateIntervalStrict(range_deg) == IntervalLoopStrict(1, StandardIntervals[1], range_deg)

CalculateInterval(range_deg) == IntervalLoop(1, StandardIntervals[1], range_deg)

---------------------------------------------------------------------------
(* Inputs *)

(* the station metadata files an invocation can be pointed at *)
DatalessFiles == {"missing", "corrupt", "empty", "BJ2"}

(* read_inventory(path) flattened to the station list, lines 49-59 *)
Inventory(path) ==
    CASE path = "BJ2" -> << Station(400 * Tenth, 1160 * Tenth),
                            Station(402 * Tenth, 1163 * Tenth) >>
      [] OTHER -> << >>

(* --region values: absent, or a string *)
NoRegionArg == [given |-> FALSE, s |-> << >>]
RegionArg(s) == [given |-> TRUE, s |-> s]

RegionArgs ==
    { NoRegionArg,
      RegionArg(<< >>),
      RegionArg(<<"115.5", "/", "116.8", "/", "39.5", "/", "40.7">>),
      RegionArg(<<"nan", "/", "nan", "/", "nan", "/", "nan">>),
      RegionArg(<<"116.8", "/", "115.5", "/", "39.5", "/", "40.7">>),
      RegionArg(<<"115.5", "/", "116.8", "/", "abc">>) }

(* --padding values: <<>> is None *)
PaddingArgs == { << >>, <<5000>>, <<5200>> }
MinRangeArgs == { 2 * Degree }
ResolutionArgs == {"03s", "30s"}
CptArgs == { << >>, <<UserCpt>>, <<WorkCpt>>, <<FinalCpt>>, << <<"nofile.cpt">> >> }

ArgSpace == [dataless : DatalessFiles, region : RegionArgs,
             padding : PaddingArgs, min_range : MinRangeArgs]

NoArgs == [dataless |-> "missing", region |-> NoRegionArg,
           padding |-> << >>, min_range |-> 2 * Degree]

(* the locals of a process that has not been started *)
IdleProcess ==
    [script |-> "none", pc |-> "idle", args |-> NoArgs, stations |-> << >>,
     region |-> << >>, padding |-> << >>, res |-> "", cacheName |-> << >>,
     useRelief |-> FALSE, cptFile |-> << >>, dl |-> NoDownload, raised |-> {},
     intervals |-> << >>, exitStatus |-> -1]

---------------------------------------------------------------------------
(* Invocations *)

Init ==
    /\ script = "none"
    /\ pc = "idle"
    /\ args = NoArgs
    /\ stations = << >>
    /\ region = << >>
    /\ padding = << >>
    /\ res = ""
    /\ cacheName = << >>
    /\ useRelief = FALSE
    /\ cptFile = << >>
    /\ dl = NoDownload
    /\ raised = {}
    /\ intervals = << >>
    /\ exitStatus = -1
    /\ fs = InitialFiles
    /\ runs = 0
    /\ other = IdleProcess

(* the process ends with sys.exit(code), or by falling off the end of main *)
Exit(code) ==
    /\ pc' = "exit"
    /\ exitStatus' = code

Fresh ==
    /\ stations' = << >>
    /\ region' = << >>
    /\ padding' = << >>
    /\ res' = ""
    /\ cacheName' = << >>
    /\ useRelief' = FALSE
    /\ cptFile' = << >>
    /\ dl' = NoDownload
    /\ raised' = {}
    /\ intervals' = << >>
    /\ exitStatus' = -1

(* python stn_plot.py ...: parse_args and TempStylePlotter() *)
StartStnPlot ==
    /\ pc \in {"idle", "exit"}
    /\ runs < MaxRuns
    /\ \E a \in ArgSpace : args' = a
    /\ script' = "stn_plot"
    /\ pc' = "parse"
    /\ runs' = runs + 1
    /\ Fresh
    /\ UNCHANGED <<fs, other>>

(* main: if not plotter.parse_dataless(args.dataless): sys.exit(1) *)
ParseDataless ==
    /\ script = "stn_plot" /\ pc = "parse"
    /\ IF args.dataless = "missing" \/ args.dataless = "corrupt"
       THEN /\ Exit(1)
            /\ UNCHANGED stations
       ELSE /\ stations' = Inventory(args.dataless)
            /\ IF Len(stations') = 0
               THEN Exit(1)
               ELSE pc' = "region" /\ UNCHANGED exitStatus
    /\ UNCHANGED <<script, args, region, padding, res, cacheName, useRelief, cptFile, dl,
                   raised, intervals, fs, runs, other>>

(* main: if args.region: plotter.set_manual_region(args.region) *)
SetManualRegion ==
    /\ script = "stn_plot" /\ pc = "region"
    /\ args.region.given /\ Len(args.region.s) > 0
    /\ LET r == ManualRegion(args.region.s, region)
       IN  /\ region' = r.region
           /\ IF r.ok THEN pc' = "outdir" /\ UNCHANGED exitStatus ELSE Exit(1)
    /\ UNCHANGED <<script, args, stations, padding, res, cacheName, useRelief, cptFile, dl,
                   raised, intervals, fs, runs, other>>

(* main: else: plotter.calculate_region(padding=args.padding, min_range=args.min_range) *)
AutoRegion ==
    /\ script = "stn_plot" /\ pc = "region"
    /\ ~(args.region.given /\ Len(args.region.s) > 0)
    /\ IF Len(stations) = 0
       THEN /\ Exit(1)
            /\ UNCHANGED <<region, padding>>
       ELSE LET c == CalculateRegion(stations, args.padding, args.min_range)
            IN  /\ region' = c.region
                /\ padding' = <<c.padding>>
                /\ pc' = "outdir"
                /\ UNCHANGED exitStatus
    /\ UNCHANGED <<script, args, stations, res, cacheName, useRelief, cptFile, dl,
                   raised, intervals, fs, runs, other>>

(* main: output_path.parent.mkdir(...); create_temp_map up to fig = pygmt.Figure().
   An exception of mkdir is not caught, one of pygmt is caught by main: both
   end the process with status 1. *)
Setup ==
    /\ script = "stn_plot" /\ pc = "outdir"
    /\ \E ok \in BOOLEAN :
          IF ok THEN pc' = "cache" /\ UNCHANGED exitStatus ELSE Exit(1)
    /\ UNCHANGED <<script, args, stations, region, padding, res, cacheName, useRelief,
                   cptFile, dl, raised, intervals, fs, runs, other>>

---------------------------------------------------------------------------
(* create_temp_map: terrain retrieval, lines 183-280 *)

(* the directory cache/ exists for certain: a file is stored in it *)
CacheDirInUse(f) == \E e \in f : e.name[1] = "cache"

(* a plausible slip: the cache is never consulted *)
CacheCheckNoReuse ==
    /\ script = "stn_plot" /\ pc = "cache"
    /\ \E resolution \in ResolutionArgs :
          /\ res' = ResolutionMap(resolution)
          /\ cacheName' = CacheName(res', region)
    /\ pc' = "grdcut"
    /\ UNCHANGED <<script, args, stations, region, padding, useRelief, cptFile, dl, raised,
                   intervals, exitStatus, fs, runs, other>>

(* lines 197-216: build the cache file name, create the cache directory
   (an exception ends in sys.exit(1) at line 280), look the file up *)
CacheCheck ==
    /\ script = "stn_plot" /\ pc = "cache"
    /\ \E resolution \in ResolutionArgs, mkdirOk \in BOOLEAN :
          /\ mkdirOk \/ ~CacheDirInUse(fs)
          /\ res' = ResolutionMap(resolution)
          /\ cacheName' = CacheName(res', region)
          /\ IF ~mkdirOk
             THEN Exit(1) /\ UNCHANGED useRelief
             ELSE IF Exists(fs, cacheName')
                  THEN pc' = "cpt" /\ useRelief' = TRUE /\ UNCHANGED exitStatus
                  ELSE pc' = "grdcut" /\ UNCHANGED <<useRelief, exitStatus>>
    /\ UNCHANGED <<script, args, stations, region, padding, cptFile, dl, raised,
                   intervals, fs, runs, other>>

(* what the external gmt commands can do: exit 0 having written the file,
   exit 0 without the file, exit non-zero, or fail to start (exception) *)
GrdcutOutcomes == {"ok", "nofile", "fail", "raise"}

(* lines 219-239: gmt grdcut @earth_relief_<res>_g -G<temp_relief> *)
PrimaryDownload ==
    /\ script = "stn_plot" /\ pc = "grdcut"
    /\ \E o \in GrdcutOutcomes :
          /\ dl' = [dl EXCEPT !.primary = IF o = "nofile" THEN "fail" ELSE o, !.n = @ + 1]
          /\ CASE o = "ok" ->
                    /\ fs' = WriteFile(fs, cacheName, <<"grd", res, region>>)
                    /\ useRelief' = TRUE
                    /\ pc' = "cpt"
                    /\ UNCHANGED exitStatus
               [] o = "raise" ->
                    /\ Exit(1)
                    /\ UNCHANGED <<fs, useRelief>>
               [] OTHER ->
                    /\ pc' = "grdcut_nc"
                    /\ UNCHANGED <<fs, useRelief, exitStatus>>
    /\ UNCHANGED <<script, args, stations, region, padding, res, cacheName, cptFile,
                   raised, intervals, runs, other>>

(* a plausible slip: a failed alternate download is tried again *)
AltDownloadRetry ==
    /\ script = "stn_plot" /\ pc = "grdcut_nc"
    /\ \E o \in GrdcutOutcomes :
          /\ dl' = [dl EXCEPT !.alt = IF o = "nofile" THEN "fail" ELSE o, !.n = @ + 1]
          /\ CASE o = "ok" ->
                    /\ fs' = WriteFile(fs, NcName(cacheName), <<"nc", res, region>>)
                    /\ pc' = "convert"
                    /\ UNCHANGED exitStatus
               [] OTHER ->
                    /\ pc' = "grdcut_nc"
                    /\ UNCHANGED <<fs, exitStatus>>
    /\ UNCHANGED <<script, args, stations, region, padding, res, cacheName, useRelief,
                   cptFile, raised, intervals, runs, other>>

(* lines 241-251 and 273-280: gmt grdcut @earth_relief_<res> -G<temp_nc> *)
AltDownload ==
    /\ script = "stn_plot" /\ pc = "grdcut_nc"
    /\ \E o \in GrdcutOutcomes :
          /\ dl' = [dl EXCEPT !.alt = IF o = "nofile" THEN "fail" ELSE o, !.n = @ + 1]
          /\ CASE o = "ok" ->
                    /\ fs' = WriteFile(fs, NcName(cacheName), <<"nc", res, region>>)
                    /\ pc' = "convert"
                    /\ UNCHANGED exitStatus
               [] OTHER ->
                    /\ Exit(1)
                    /\ UNCHANGED fs
    /\ UNCHANGED <<script, args, stations, region, padding, res, cacheName, useRelief,
                   cptFile, raised, intervals, runs, other>>

(* lines 253-272 and 277-280: gmt grdconvert <temp_nc> <temp_relief>, then
   os.remove(temp_nc) *)
Convert ==
    /\ script = "stn_plot" /\ pc = "convert"
    /\ \E o \in {"ok", "fail", "raise"} :
          /\ dl' = [dl EXCEPT !.convert = o]
          /\ IF o = "ok"
             THEN /\ fs' = Remove(WriteFile(fs, cacheName, <<"grd", res, region>>),
                                  NcName(cacheName))
                  /\ useRelief' = TRUE
                  /\ pc' = "cpt"
                  /\ UNCHANGED exitStatus
             ELSE /\ Exit(1)
                  /\ UNCHANGED <<fs, useRelief>>
    /\ UNCHANGED <<script, args, stations, region, padding, res, cacheName, cptFile,
                   raised, intervals, runs, other>>

---------------------------------------------------------------------------
(* create_temp_map: rendering, lines 282-491 *)

(* an exception inside the try block of line 183: caught at line 488, sys.exit(1) *)
Raise(step) ==
    /\ raised' = raised \cup {step}
    /\ Exit(1)

(* lines 284-298: create_custom_elevation_cpt(None, cpt_file), then
   shutil.copy(custom_cpt, "final_elevation.cpt").  A missing file raises
   FileNotFoundError, a source that is custom_elevation.cpt itself raises
   SameFileError; both are caught at line 488. *)
LoadCpt ==
    /\ script = "stn_plot" /\ pc = "cpt"
    /\ \E c \in CptArgs :
          LET cpt_file == IF c = << >> THEN DefaultCpt ELSE c[1]
          IN  /\ cptFile' = <<cpt_file>>
              /\ IF ~Exists(fs, cpt_file) \/ cpt_file = WorkCpt
                 THEN Exit(1) /\ UNCHANGED fs
                 ELSE /\ fs' = CopyFile(CopyFile(fs, cpt_file, WorkCpt), WorkCpt, FinalCpt)
                      /\ pc' = "grdimage"
                      /\ UNCHANGED exitStatus
    /\ UNCHANGED <<script, args, stations, region, padding, res, cacheName, useRelief,
                   dl, raised, intervals, runs, other>>

(* lines 302-309: fig.grdimage(..., cmap="final_elevation.cpt", ...); the
   call cannot succeed when the colour table is not on disk *)
Grdimage ==
    /\ script = "stn_plot" /\ pc = "grdimage"
    /\ \E ok \in BOOLEAN :
          /\ ok => Exists(fs, FinalCpt)
          /\ IF ok THEN pc' = "coast" /\ UNCHANGED <<raised, exitStatus>>
             ELSE Raise("grdimage")
    /\ UNCHANGED <<script, args, stations, region, padding, res, cacheName, useRelief,
                   cptFile, dl, intervals, fs, runs, other>>

(* lines 316-354: fig.coast(...); its exception is caught at line 326 and the
   replacement drawing is tried, whose exception is caught at line 351 *)
Coast ==
    /\ script = "stn_plot" /\ pc = "coast"
    /\ \E draw_coast \in BOOLEAN, coastOk \in BOOLEAN, altOk \in BOOLEAN :
          raised' = IF ~draw_coast \/ coastOk THEN raised
                    ELSE IF altOk THEN raised \cup {"coast"}
                    ELSE raised \cup {"coast", "coast_alt"}
    /\ pc' = "plot"
    /\ UNCHANGED <<script, args, stations, region, padding, res, cacheName, useRelief,
                   cptFile, dl, intervals, exitStatus, fs, runs, other>>

(* a plausible slip: an exception of the station plot is swallowed *)
PlotStationsSwallow ==
    /\ script = "stn_plot" /\ pc = "plot"
    /\ \E ok \in BOOLEAN :
          raised' = IF ok THEN raised ELSE raised \cup {"plot"}
    /\ pc' = "labels"
    /\ UNCHANGED <<script, args, stations, region, padding, res, cacheName, useRelief,
                   cptFile, dl, intervals, exitStatus, fs, runs, other>>

(* lines 357-368: fig.plot(x=lons, y=lats, ...) *)
PlotStations ==
    /\ script = "stn_plot" /\ pc = "plot"
    /\ \E ok \in BOOLEAN :
          IF ok THEN pc' = "labels" /\ UNCHANGED <<raised, exitStatus>>
          ELSE Raise("plot")
    /\ UNCHANGED <<script, args, stations, region, padding, res, cacheName, useRelief,
                   cptFile, dl, intervals, fs, runs, other>>

(* lines 371-382: if add_labels: fig.text(...) for every station *)
Labels ==
    /\ script = "stn_plot" /\ pc = "labels"
    /\ \E add_labels \in BOOLEAN, ok \in BOOLEAN :
          IF ~add_labels \/ ok THEN pc' = "frame" /\ UNCHANGED <<raised, exitStatus>>
          ELSE Raise("labels")
    /\ UNCHANGED <<script, args, stations, region, padding, res, cacheName, useRelief,
                   cptFile, dl, intervals, fs, runs, other>>

(* lines 385-426: tick intervals from the region, then fig.basemap(...) *)
Frame ==
    /\ script = "stn_plot" /\ pc = "frame"
    /\ intervals' = << CalculateInterval(FSub(region[2], region[1])),
                       CalculateInterval(FSub(region[4], region[3])) >>
    /\ \E ok \in BOOLEAN :
          IF ok THEN pc' = "colorbar" /\ UNCHANGED <<raised, exitStatus>>
          ELSE Raise("frame")
    /\ UNCHANGED <<script, args, stations, region, padding, res, cacheName, useRelief,
                   cptFile, dl, fs, runs, other>>

(* lines 429-440: if show_colorbar and use_relief: fig.colorbar(...) *)
Colorbar ==
    /\ script = "stn_plot" /\ pc = "colorbar"
    /\ \E show_colorbar \in BOOLEAN, ok \in BOOLEAN :
          IF ~(show_colorbar /\ useRelief) \/ ok
          THEN pc' = "save" /\ UNCHANGED <<raised, exitStatus>>
          ELSE Raise("colorbar")
    /\ UNCHANGED <<script, args, stations, region, padding, res, cacheName, useRelief,
                   cptFile, dl, intervals, fs, runs, other>>

(* lines 447-472: fig.savefig(output_path, ...) *)
Save ==
    /\ script = "stn_plot" /\ pc = "save"
    /\ \E ok \in BOOLEAN :
          IF ok
          THEN /\ fs' = WriteFile(fs, OutputFile, <<"png">>)
               /\ pc' = "cleanup"
               /\ UNCHANGED <<raised, exitStatus>>
          ELSE Raise("save") /\ UNCHANGED fs
    /\ UNCHANGED <<script, args, stations, region, padding, res, cacheName, useRelief,
                   cptFile, dl, intervals, runs, other>>

(* a plausible slip: final_elevation.cpt is missing from temp_files *)
CleanupKeepsFinal ==
    /\ script = "stn_plot" /\ pc = "cleanup"
    /\ fs' = {e \in fs : e.name # WorkCpt}
    /\ Exit(0)
    /\ UNCHANGED <<script, args, stations, region, padding, res, cacheName, useRelief,
                   cptFile, dl, raised, intervals, runs, other>>

(* lines 474-486: remove the temporary files; create_temp_map returns and
   main ends, exit status 0 *)
Cleanup ==
    /\ script = "stn_plot" /\ pc = "cleanup"
    /\ fs' = {e \in fs : e.name \notin TempFiles}
    /\ Exit(0)
    /\ UNCHANGED <<script, args, stations, region, padding, res, cacheName, useRelief,
                   cptFile, dl, raised, intervals, runs, other>>

---------------------------------------------------------------------------
(* generate_cpt_previews.py: main with the one colour table cpt/colombia.cpt *)

(* python generate_cpt_previews.py; the metadata file is <script_dir>/BJ.dataless *)
StartPreview ==
    /\ pc \in {"idle", "exit"}
    /\ runs < MaxRuns
    /\ \E d \in DatalessFiles : args' = [NoArgs EXCEPT !.dataless = d]
    /\ script' = "preview"
    /\ pc' = "pv_parse"
    /\ runs' = runs + 1
    /\ Fresh
    /\ UNCHANGED <<fs, other>>

(* the except handler of lines 153-158: remove temp_preview.cpt, return False;
   main counts the failure and ends with status 0 *)
PreviewFail ==
    /\ fs' = Remove(fs, PreviewCpt)
    /\ Exit(0)

(* main lines 172-174, generate_cpt_preview lines 35-71 *)
PreviewParse ==
    /\ script = "preview" /\ pc = "pv_parse"
    /\ IF args.dataless = "missing"
       THEN Exit(1) /\ UNCHANGED <<stations, region, fs>>
       ELSE IF args.dataless = "corrupt"
       THEN PreviewFail /\ UNCHANGED <<stations, region>>
       ELSE /\ stations' = Inventory(args.dataless)
            /\ IF Len(stations') = 0
               THEN Exit(0) /\ UNCHANGED <<region, fs>>
               ELSE /\ region' = PreviewRegion(stations')
                    /\ pc' = "pv_relief"
                    /\ UNCHANGED <<exitStatus, fs>>
    /\ UNCHANGED <<script, args, padding, res, cacheName, useRelief, cptFile, dl,
                   raised, intervals, runs, other>>

(* lines 74-89: pygmt setup, load_earth_relief, copy of the colour table *)
PreviewRelief ==
    /\ script = "preview" /\ pc = "pv_relief"
    /\ \E ok \in BOOLEAN :
          IF ok
          THEN /\ fs' = CopyFile(fs, DefaultCpt, PreviewCpt)
               /\ cptFile' = <<DefaultCpt>>
               /\ pc' = "pv_draw"
               /\ UNCHANGED exitStatus
          ELSE PreviewFail /\ UNCHANGED cptFile
    /\ UNCHANGED <<script, args, stations, region, padding, res, cacheName, useRelief,
                   dl, raised, intervals, runs, other>>

(* lines 92-158: the drawing calls and savefig, then the removal of
   temp_preview.cpt, on success and in the except handler alike *)
PreviewDraw ==
    /\ script = "preview" /\ pc = "pv_draw"
    /\ \E ok \in BOOLEAN :
          IF ok
          THEN /\ fs' = Remove(WriteFile(fs, PreviewPng, <<"png">>), PreviewCpt)
               /\ Exit(0)
               /\ UNCHANGED raised
          ELSE /\ PreviewFail
               /\ raised' = raised \cup {"preview"}
    /\ UNCHANGED <<script, args, stations, region, padding, res, cacheName, useRelief,
                   cptFile, dl, intervals, runs, other>>

---------------------------------------------------------------------------
(* Specifications *)

Next ==
    \/ StartStnPlot
    \/ ParseDataless
    \/ SetManualRegion
    \/ AutoRegion
    \/ Setup
    \/ CacheCheck
    \/ PrimaryDownload
    \/ AltDownload
    \/ Convert
    \/ LoadCpt
    \/ Grdimage
    \/ Coast
    \/ PlotStations
    \/ Labels
    \/ Frame
    \/ Colorbar
    \/ Save
    \/ Cleanup
    \/ StartPreview
    \/ PreviewParse
    \/ PreviewRelief
    \/ PreviewDraw

Spec == Init /\ [][Next]_vars

---------------------------------------------------------------------------
(* calculate_region on every station list of a coordinate grid, called as
   main calls it *)

GridLats == {380 * Tenth, 400 * Tenth, 402 * Tenth}
GridLons == {1100 * Tenth, 1160 * Tenth, 1163 * Tenth}
GridStations == {Station(lat, lon) : lat \in GridLats, lon \in GridLons}
StationLists == UNION {[1..n -> GridStations] : n \in 1..MaxStations}

CalcPaddingArgs == { << >>, <<0 - Tenth>>, <<0>>, <<Tenth \div 2>>, <<5 * Tenth>> }
CalcMinRangeArgs == { Degree, 2 * Degree }

(* the state of main at line 528, metadata parsed *)
AtRegionStep(st, a) ==
    /\ script = "stn_plot"
    /\ pc = "region"
    /\ args = a
    /\ stations = st
    /\ region = << >>
    /\ padding = << >>
    /\ res = ""
    /\ cacheName = << >>
    /\ useRelief = FALSE
    /\ cptFile = << >>
    /\ dl = NoDownload
    /\ raised = {}
    /\ intervals = << >>
    /\ exitStatus = -1
    /\ fs = InitialFiles
    /\ runs = 1
    /\ other = IdleProcess

InitCalc ==
    \E st \in StationLists, p \in CalcPaddingArgs, m \in CalcMinRangeArgs :
        AtRegionStep(st, [dataless |-> "grid", region |-> NoRegionArg,
                          padding |-> p, min_range |-> m])

SpecCalc == InitCalc /\ [][AutoRegion]_vars

---------------------------------------------------------------------------
(* set_manual_region on every --region string over the tokens *)

(* the string whose fields are f: "/".join(f) *)
RECURSIVE Join(_)
Join(f) ==
    IF Len(f) = 0 THEN << >>
    ELSE (IF f[1] = "" THEN << >> ELSE <<f[1]>>)
         \o (IF Len(f) > 1 THEN <<"/">> \o Join(Tail(f)) ELSE << >>)

RegionStrings ==
    {Join(f) : f \in UNION {[1..n -> Tokens \cup {""}] : n \in 1..MaxFields}}

InitManual ==
    \E s \in RegionStrings :
        AtRegionStep(Inventory("BJ2"),
                     [dataless |-> "BJ2", region |-> RegionArg(s),
                      padding |-> << >>, min_range |-> 2 * Degree])

SpecManual == InitManual /\ [][SetManualRegion]_vars

---------------------------------------------------------------------------
(* calculate_interval on the axis spans of a range of regions *)

SpanStep == Tenth \div 2

(* regions whose longitude span grows and whose latitude span shrinks with k,
   and the region of nan that set_manual_region lets through *)
SpanRegions ==
    { << Num(1160 * Tenth), Num(1160 * Tenth + k * SpanStep),
         Num(400 * Tenth), Num(400 * Tenth + (MaxSpanSteps + 1 - k) * SpanStep) >>
      : k \in 1..MaxSpanSteps }
    \cup { <<NaN, NaN, NaN, NaN>> }

(* the state of create_temp_map at line 385, everything before it succeeded *)
InitInterval ==
    \E r \in SpanRegions :
        /\ script = "stn_plot"
        /\ pc = "frame"
        /\ args = [dataless |-> "BJ2",
                   region |-> RegionArg(<<"lon_min", "/", "lon_max", "/",
                                          "lat_min", "/", "lat_max">>),
                   padding |-> << >>, min_range |-> 2 * Degree]
        /\ stations = Inventory("BJ2")
        /\ region = r
        /\ padding = << >>
        /\ res = "03s"
        /\ cacheName = CacheName("03s", r)
        /\ useRelief = TRUE
        /\ cptFile = <<DefaultCpt>>
        /\ dl = NoDownload
        /\ raised = {}
        /\ intervals = << >>
        /\ exitStatus = -1
        /\ fs = CopyFile(CopyFile(WriteFile(InitialFiles, CacheName("03s", r),
                                            <<"grd", "03s", r>>),
                                  DefaultCpt, WorkCpt), WorkCpt, FinalCpt)
        /\ runs = 1
        /\ other = IdleProcess

SpecInterval == InitInterval /\ [][Frame]_vars

---------------------------------------------------------------------------
(* Two invocations of stn_plot.py interleaved in one working directory *)

(* the locals of the running process *)
Locals ==
    [script |-> script, pc |-> pc, args |-> args, stations |-> stations,
     region |-> region, padding |-> padding, res |-> res, cacheName |-> cacheName,
     useRelief |-> useRelief, cptFile |-> cptFile, dl |-> dl, raised |-> raised,
     intervals |-> intervals, exitStatus |-> exitStatus]

(* the scheduler runs the other process: the two processes are separate
   interpreters that share nothing but the files; each step above is atomic *)
Switch ==
    /\ other.script = "stn_plot" /\ other.pc # "exit"
    /\ other' = Locals
    /\ script' = other.script
    /\ pc' = other.pc
    /\ args' = other.args
    /\ stations' = other.stations
    /\ region' = other.region
    /\ padding' = other.padding
    /\ res' = other.res
    /\ cacheName' = other.cacheName
    /\ useRelief' = other.useRelief
    /\ cptFile' = other.cptFile
    /\ dl' = other.dl
    /\ raised' = other.raised
    /\ intervals' = other.intervals
    /\ exitStatus' = other.exitStatus
    /\ UNCHANGED <<fs, runs>>

(* both processes were started on BJ2 with no --region and no --padding, found
   the grid in the cache and stand at line 282 *)
InitConc ==
    LET c == CalculateRegion(Inventory("BJ2"), << >>, 2 * Degree)
        name == CacheName("03s", c.region)
    IN  /\ script = "stn_plot"
        /\ pc = "cpt"
        /\ args = [dataless |-> "BJ2", region |-> NoRegionArg,
                   padding |-> << >>, min_range |-> 2 * Degree]
        /\ stations = Inventory("BJ2")
        /\ region = c.region
        /\ padding = <<c.padding>>
        /\ res = "03s"
        /\ cacheName = name
        /\ useRelief = TRUE
        /\ cptFile = << >>
        /\ dl = NoDownload
        /\ raised = {}
        /\ intervals = << >>
        /\ exitStatus = -1
        /\ fs = WriteFile(InitialFiles, name, <<"grd", "03s", c.region>>)
        /\ runs = 2
        /\ other = Locals

NextConc ==
    \/ LoadCpt
    \/ Grdimage
    \/ Coast
    \/ PlotStations
    \/ Labels
    \/ Frame
    \/ Colorbar
    \/ Save
    \/ Cleanup
    \/ Switch

SpecConc == InitConc /\ [][NextConc]_vars

---------------------------------------------------------------------------
(* Properties *)

(* calculate_region has returned to main *)
RegionComputed == script = "stn_plot" /\ pc = "outdir" /\ padding # << >>

(* set_manual_region was called: main took the branch of line 530 and left it *)
ManualRegionCalled ==
    /\ script = "stn_plot" /\ pc # "region"
    /\ args.region.given /\ Len(args.region.s) > 0

(* -180 <= lon_min < lon_max <= 180 and -90 <= lat_min < lat_max <= 90 *)
InBounds(r) ==
    /\ FLe(Num(0 - 180 * Degree), r[1]) /\ FLt(r[1], r[2]) /\ FLe(r[2], Num(180 * Degree))
    /\ FLe(Num(0 - 90 * Degree), r[3]) /\ FLt(r[3], r[4]) /\ FLe(r[4], Num(90 * Degree))

(* four slash-separated numeric fields, ordered and within the geographic range *)
ValidRegionString(s) ==
    LET parts == Split(s)
    IN  /\ Len(parts) = 4
        /\ \A i \in 1..4 : ParseFloat(parts[i]).ok
        /\ InBounds([i \in 1..4 |-> ParseFloat(parts[i]).f])

(* C1: the region calculate_region returns contains every station strictly,
   lon_min < longitude < lon_max and lat_min < latitude < lat_max, for every
   padding it can be called with. *)
C1_RegionContainsStations ==
    RegionComputed =>
        \A i \in 1..Len(stations) :
            /\ region[1].v < stations[i].longitude
            /\ stations[i].longitude < region[2].v
            /\ region[3].v < stations[i].latitude
            /\ stations[i].latitude < region[4].v

(* C2: when set_manual_region returns normally the string had exactly four
   numeric fields and the stored region is ordered and within
   [-180,180] x [-90,90]; every other string ends the process with status 1. *)
C2_ManualRegionValidated ==
    ManualRegionCalled =>
        /\ pc # "exit" => /\ Len(Split(args.region.s)) = 4
                          /\ \A i \in 1..4 : ParseFloat(Split(args.region.s)[i]).ok
                          /\ InBounds(region)
        /\ ~ValidRegionString(args.region.s) => pc = "exit" /\ exitStatus = 1

(* C6: the auto-computed padding is within [0.05, 0.5] degree and is monotone
   in the larger coordinate spread: a larger spread never gets a smaller
   padding, a smaller spread never a larger one. *)
C6_AutoPaddingBounded ==
    (RegionComputed /\ args.padding = << >>) =>
        /\ Tenth \div 2 <= padding[1]
        /\ padding[1] <= 5 * Tenth
        /\ \A k \in 0..MaxSpreadTenths :
              /\ k * Tenth >= Spread(stations) => AutoPadding(k * Tenth) >= padding[1]
              /\ k * Tenth <= Spread(stations) => AutoPadding(k * Tenth) <= padding[1]

(* a padding strictly between floor and ceiling: spread 2.0 degree, padding 0.3 *)
C6_Witness ==
    /\ RegionComputed /\ args.padding = << >>
    /\ Spread(stations) = 2 * Degree
    /\ padding = <<3 * Tenth>>

(* the candidates of C7, in model units *)
ClaimedIntervals ==
    {Tenth \div 2, Tenth, 2 * Tenth, (5 * Tenth) \div 2, 5 * Tenth,
     10 * Tenth, 20 * Tenth, 50 * Tenth}

(* the largest candidate that is at most span / 3, or 0.05 when there is none *)
LargestFitting(span) ==
    LET fit == {c \in ClaimedIntervals : span.k = "num" /\ 3 * c <= span.v}
    IN  IF fit = {} THEN Tenth \div 2 ELSE SetMax(fit)

(* C7: calculate_interval returns the largest of 0.05, 0.1, 0.2, 0.25, 0.5,
   1.0, 2.0, 5.0 that is at most span / 3, and 0.05 when none is. *)
C7_IntervalIsLargestFitting ==
    (script = "stn_plot" /\ intervals # << >>) =>
        /\ intervals[1] = LargestFitting(FSub(region[2], region[1]))
        /\ intervals[2] = LargestFitting(FSub(region[4], region[3]))

(* longitude span 0.75 degree, exactly three times 0.25; latitude span 15.8 *)
C7_Witness ==
    /\ script = "stn_plot" /\ pc = "colorbar"
    /\ FSub(region[2], region[1]) = Num(15 * SpanStep)
    /\ intervals[1] = (5 * Tenth) \div 2
    /\ intervals[2] = 50 * Tenth

(* C9: the auto-computed region spans at least min_range degrees in longitude
   and in latitude. *)
C9_MinRangeHonoured ==
    RegionComputed =>
        /\ region[2].v - region[1].v >= args.min_range
        /\ region[4].v - region[3].v >= args.min_range

(* terrain retrieval failed: the primary download could not be started, the
   alternate download failed after the primary one, or the conversion failed *)
TerrainFailed ==
    \/ dl.primary = "raise"
    \/ dl.primary = "fail" /\ dl.alt \in {"fail", "raise"}
    \/ dl.convert \in {"fail", "raise"}

(* C3: an invocation of stn_plot ends with a non-zero status when the metadata
   file is missing, when no station was parsed, when the --region string is
   invalid, or when terrain retrieval failed. *)
C3_FailuresExitNonZero ==
    (script = "stn_plot" /\ pc = "exit") =>
        (( \/ args.dataless = "missing"
           \/ Len(stations) = 0
           \/ args.region.given /\ ~ValidRegionString(args.region.s)
           \/ TerrainFailed )
         => exitStatus # 0)

(* C4 as stated: an exception of any rendering step, the coastline included,
   ends the process with a non-zero status. *)
C4_AnyRenderingExceptionFatal ==
    (script = "stn_plot" /\ pc = "exit" /\ raised # {}) => exitStatus # 0

(* C4: an exception raised by a rendering step of create_temp_map other than
   the coastline step (background raster, station markers, labels, frame,
   legend, save) ends the process at once with status 1; only exceptions of
   the coastline step and of its replacement drawing can precede a normal
   completion. *)
C4_RenderingExceptionFatalExceptCoast ==
    script = "stn_plot" =>
        /\ raised \ {"coast", "coast_alt"} # {} => pc = "exit" /\ exitStatus = 1
        /\ (pc = "exit" /\ exitStatus = 0) => raised \subseteq {"coast", "coast_alt"}

(* the save step raised after a coastline exception had been survived *)
C4_Witness ==
    /\ script = "stn_plot" /\ pc = "exit" /\ exitStatus = 1
    /\ raised = {"coast", "save"}

(* a grid that an invocation downloaded for resolution r and region R is on disk *)
GridOnDisk(f, r, R) == \E e \in f : e.data = <<"grd", r, R>>

RenderingPositions ==
    {"cpt", "grdimage", "coast", "plot", "labels", "frame", "colorbar", "save", "cleanup"}

(* C5: once a grid downloaded for resolution r and region R is on disk, the
   cache lookup of an invocation with the same r and R finds it under the name
   it computes and goes on to rendering with that file, and from the lookup to
   the end of the invocation no download command is run. *)
C5_CacheReused ==
    [][ /\ (script = "stn_plot" /\ pc = "cache" /\ GridOnDisk(fs, res', region))
           => /\ pc' = "cpt"
              /\ useRelief'
              /\ ReadFile(fs, cacheName') = <<"grd", res', region>>
              /\ dl' = NoDownload
        /\ (script = "stn_plot" /\ pc \in RenderingPositions) => dl' = dl ]_vars

(* the second invocation took the grid of the first from the cache *)
C5_Witness ==
    /\ script = "stn_plot" /\ runs = 2 /\ pc = "cpt"
    /\ useRelief /\ dl = NoDownload
    /\ GridOnDisk(fs, res, region)

(* the stations of C8 and the region it states *)
C8_Stations == << Station(400 * Tenth, 1160 * Tenth), Station(402 * Tenth, 1163 * Tenth) >>
C8_Region == << Num(1155 * Tenth), Num(1168 * Tenth), Num(395 * Tenth), Num(407 * Tenth) >>

(* stn_plot has computed the region with no --padding given *)
StnPlotDefaultRegion == RegionComputed /\ args.padding = << >> /\ stations = C8_Stations

(* generate_cpt_preview has computed the region *)
PreviewDefaultRegion == script = "preview" /\ pc = "pv_relief" /\ stations = C8_Stations

(* C8 as stated: both scripts compute [115.5, 116.8, 39.5, 40.7]. *)
C8_BothScriptsPadHalfDegree ==
    (StnPlotDefaultRegion \/ PreviewDefaultRegion) => region = C8_Region

(* C8: for stations (40.0, 116.0) and (40.2, 116.3) and no padding option,
   generate_cpt_preview computes [115.5, 116.8, 39.5, 40.7] (padding 0.5);
   calculate_region of stn_plot uses the padding 0.05 and computes
   [115.95, 116.35, 39.95, 40.25]. *)
C8_DefaultRegions ==
    /\ PreviewDefaultRegion => region = C8_Region
    /\ StnPlotDefaultRegion =>
          /\ padding = <<Tenth \div 2>>
          /\ region = << Num(11595 * (Tenth \div 10)), Num(11635 * (Tenth \div 10)),
                         Num(3995 * (Tenth \div 10)), Num(4025 * (Tenth \div 10)) >>

(* the preview has computed the region of the example *)
C8_Witness == PreviewDefaultRegion /\ region = C8_Region

Count(x) == IF x = "none" THEN 0 ELSE 1

(* C10: one invocation runs at most two downloads, each at most once; the
   alternate download only after the primary one failed, the conversion only
   after the alternate download succeeded; a failed alternate download or
   conversion ends the process at once. *)
C10_SingleFallback ==
    script = "stn_plot" =>
        /\ dl.n <= 2
        /\ dl.n = Count(dl.primary) + Count(dl.alt)
        /\ dl.alt # "none" => dl.primary = "fail"
        /\ dl.convert # "none" => dl.alt = "ok"
        /\ (dl.alt \in {"fail", "raise"} \/ dl.convert \in {"fail", "raise"})
              => pc = "exit" /\ exitStatus = 1

(* both downloads ran and the conversion failed *)
C10_Witness ==
    /\ script = "stn_plot" /\ pc = "exit" /\ exitStatus = 1
    /\ dl = [primary |-> "fail", alt |-> "ok", convert |-> "fail", n |-> 2]

(* this invocation wrote custom_elevation.cpt and final_elevation.cpt: the
   copies of lines 143 and 298 were made (every path that ends before them,
   or in them, leaves `raised` empty and the status 1) *)
WroteWorkCpts ==
    script = "stn_plot" /\ cptFile # << >> /\ (exitStatus = 0 \/ raised # {})

(* this invocation wrote temp_preview.cpt, line 89 *)
WrotePreviewCpt == script = "preview" /\ cptFile # << >>

(* C11: every temporary colour table an invocation wrote (custom_elevation.cpt,
   final_elevation.cpt, temp_preview.cpt) is gone when the invocation has
   terminated, with or without an error. *)
C11_TempCptsRemoved ==
    pc = "exit" =>
        /\ WroteWorkCpts => ~Exists(fs, WorkCpt) /\ ~Exists(fs, FinalCpt)
        /\ WrotePreviewCpt => ~Exists(fs, PreviewCpt)

(* C13: the grid an invocation renders, fresh or taken from the cache, was
   cut for exactly its resolution and region. *)
C13_GridMatchesRegion ==
    (script = "stn_plot" /\ useRelief /\ pc \in RenderingPositions) =>
        /\ Exists(fs, cacheName)
        /\ ReadFile(fs, cacheName) = <<"grd", res, region>>

(* C14: when create_temp_map has completed, the colour table named by --cpt
   (or cpt/colombia.cpt) still exists, and the shipped tables hold what they
   held before. *)
C14_CptOnlyRead ==
    (script = "stn_plot" /\ pc = "exit" /\ exitStatus = 0 /\ cptFile # << >>) =>
        /\ Exists(fs, cptFile[1])
        /\ \A e \in InitialFiles : e.name = cptFile[1] => e \in fs

(* the other process has written its colour tables and not yet drawn with them *)
OtherBetweenWriteAndUse == other.script = "stn_plot" /\ other.pc = "grdimage"

(* C12: nothing protects custom_elevation.cpt and final_elevation.cpt against
   a concurrent invocation.  While the other invocation stands between writing
   them and drawing with them, the cleanup of this invocation deletes both
   files, and the copies of this invocation replace them by its own table. *)
C12_TempCptsUnprotected ==
    [][ (OtherBetweenWriteAndUse /\ other' = other) =>
          /\ (pc = "cleanup" /\ pc' = "exit")
                => ~Exists(fs', WorkCpt) /\ ~Exists(fs', FinalCpt)
          /\ (pc = "cpt" /\ pc' = "grdimage")
                => /\ ReadFile(fs', WorkCpt) = ReadFile(fs, cptFile'[1])
                   /\ ReadFile(fs', FinalCpt) = ReadFile(fs, cptFile'[1]) ]_vars

(* the other invocation copied user.cpt and is about to draw; this invocation
   has finished and its cleanup removed the other's final_elevation.cpt *)
C12_Witness ==
    /\ OtherBetweenWriteAndUse
    /\ other.cptFile = <<UserCpt>>
    /\ script = "stn_plot" /\ pc = "exit" /\ exitStatus = 0
    /\ cptFile = <<DefaultCpt>>
    /\ ~Exists(fs, FinalCpt)

====
